---- MODULE Spec2Model ----
(***************************************************************************)
(* Order allocation and settlement of the escort bot (src/main.py).       *)
(*                                                                         *)
(* Every handler is an asyncio task.  It opens its own SQLite connection   *)
(* and yields to the event loop at every `await`, so handlers interleave   *)
(* between two statements.  A SELECT runs in autocommit mode and sees the  *)
(* committed database.  The first INSERT/UPDATE/DELETE of a connection     *)
(* takes the database write lock and keeps it until commit: other writers  *)
(* wait, readers keep seeing the committed data.  The statements from the  *)
(* first write to the commit therefore take effect as one step; a handler  *)
(* that raises before its commit leaves the database unchanged, because    *)
(* the connection is closed without commit.                                *)
(***************************************************************************)
EXTENDS Integers, Sequences, FiniteSets, Bags, TLC

(***************************************************************************)
(* Universe of the model.                                                  *)
(***************************************************************************)
Workers == {"A", "B", "C", "D", "E"}
Orders == {"O1"}
Squads == {"S1", "S2"}
NoSquad == "NULL"
NoOrder == "-"
NoPubg == "NULL"
NoTime == 0

\* Handlers that may be in flight at the same time.
MaxTasks == 2
\* Last instant of the clock read by datetime.now().
MaxTime == 2
\* Longest ban or restriction the admin types, in days.
MaxDays == 1
\* Ratings a worker can receive before the raters stop.
MaxRatings == 2
\* Balance up to which the admin goes on crediting.
MaxBalance == 2000

\* escorts.squad_id of the seeded workers: A, B and E are in S1, C and D in S2.
SeedSquad(w) == IF w \in {"C", "D"} THEN "S2" ELSE "S1"
\* escorts.pubg_id of the seeded workers.
SeedPubg(w) == w
\* orders.amount of the seeded orders.
Amount(o) == 1000

VARIABLES
    squad_id,            \* escorts.squad_id
    pubg_id,             \* escorts.pubg_id
    completed_orders,    \* escorts.completed_orders
    is_banned,           \* escorts.is_banned
    ban_until,           \* escorts.ban_until
    restrict_until,      \* escorts.restrict_until
    balance,             \* escorts.balance
    reputation,          \* escorts.reputation
    rating,              \* escorts.rating
    rating_count,        \* escorts.rating_count
    squad_rating,        \* squads.rating
    squad_rating_count,  \* squads.rating_count
    status,              \* orders.status
    order_squad,         \* orders.squad_id
    commission_amount,   \* orders.commission_amount
    completed_at,        \* orders.completed_at
    order_rating,        \* orders.rating
    order_applications,  \* table order_applications, in rowid order
    order_escorts,       \* table order_escorts
    payouts,             \* table payouts, in rowid order
    action_log,          \* table action_log, in rowid order
    new_orders,          \* rows of table orders inserted after the seed
    squads,              \* the ids in table squads
    memo_order_id,       \* orders.memo_order_id of the seeded orders
    now,                 \* the wall clock
    tasks                \* handlers in flight, a bag of task records

\* The ban and restriction columns of escorts.
access == <<is_banned, ban_until, restrict_until>>
\* The money: escorts.balance and the table payouts.
ledger == <<balance, payouts>>
\* The rating columns of escorts, squads and orders.
ratings == <<reputation, rating, rating_count, squad_rating,
             squad_rating_count, order_rating>>

\* The tables no worker handler reads.
journal == <<action_log, new_orders, squads, memo_order_id>>

db == <<squad_id, pubg_id, completed_orders, status, order_squad,
        commission_amount, completed_at, order_applications, order_escorts,
        access, ledger, ratings, journal>>
vars == <<squad_id, pubg_id, completed_orders, status, order_squad,
          commission_amount, completed_at, order_applications, order_escorts,
          access, ledger, ratings, journal, now, tasks>>

(***************************************************************************)
(* Tasks.                                                                  *)
(***************************************************************************)
Task(op, user, order, pc) ==
    [op |-> op, user |-> user, order |-> order, pc |-> pc,
     squad |-> NoSquad, pubg |-> NoPubg, valid |-> <<>>, winning |-> NoSquad,
     amount |-> 0, stars |-> 0, escorts |-> <<>>, rows |-> <<>>,
     source |-> NoOrder, res |-> "none"]

Running == BagToSet(tasks)

\* A finished handler keeps only what it answers.
Done(t, res) == [Task(t.op, "-", t.order, "done") EXCEPT !.res = res]

Spawn(t) ==
    /\ BagCardinality(tasks) < MaxTasks
    /\ tasks' = tasks (+) SetToBag({t})

Step(t, t2) == tasks' = (tasks (-) SetToBag({t})) (+) SetToBag({t2})

(***************************************************************************)
(* Queries.                                                                *)
(***************************************************************************)
Range(s) == {s[i] : i \in 1..Len(s)}

\* escorts.id of the seeded workers (AUTOINCREMENT, in the order they came).
EscortId(w) ==
    CASE w = "A" -> 1 [] w = "B" -> 2 [] w = "C" -> 3 [] w = "D" -> 4
      [] w = "E" -> 5

\* The applications of an order in rowid order, the order of arrival.
ArrivalsOf(o) == SelectSeq(order_applications, LAMBDA a : a.order_id = o)

\* The rows in ascending order of escort_id.
ByEscortId(rows) ==
    [i \in 1..Cardinality(rows) |->
        CHOOSE r \in rows :
            Cardinality({x \in rows :
                            EscortId(x.escort_id) < EscortId(r.escort_id)}) = i - 1]

\* SELECT ... FROM order_applications WHERE order_id = ?
\* There is no ORDER BY: SQLite searches the index of
\* PRIMARY KEY (order_id, escort_id) and answers in ascending escort_id.
ApplicationsOf(o) == ByEscortId(Range(ArrivalsOf(o)))

\* SELECT COUNT(*) FROM order_applications WHERE order_id = ? AND escort_id = ?
OwnApplications(o, e) ==
    Len(SelectSeq(order_applications,
                  LAMBDA a : a.order_id = o /\ a.escort_id = e))

\* DELETE FROM order_applications WHERE order_id = ?
DeleteApplications(o) == SelectSeq(order_applications, LAMBDA a : a.order_id # o)

\* SELECT escort_id FROM order_escorts WHERE order_id = ?
AssigneesOf(o) == {r.escort_id : r \in {x \in order_escorts : x.order_id = o}}

(***************************************************************************)
(* join_order                                                              *)
(***************************************************************************)
PoolIsFull(participant_count) == participant_count >= 4

\* Mutant: the squad of the worker is not looked at.
join_order_get_escort_any_squad(u, o) ==
    /\ Spawn(IF pubg_id[u] = NoPubg
                THEN Done(Task("join", u, o, "escort"), "MissingGameId")
             ELSE [Task("join", u, o, "order") EXCEPT
                      !.squad = squad_id[u], !.pubg = pubg_id[u]])
    /\ UNCHANGED <<db, now>>

join_order_get_escort(u, o) ==
    /\ Spawn(IF pubg_id[u] = NoPubg
                THEN Done(Task("join", u, o, "escort"), "MissingGameId")
             ELSE IF squad_id[u] = NoSquad
                THEN Done(Task("join", u, o, "escort"), "NotInSquad")
             ELSE [Task("join", u, o, "order") EXCEPT
                      !.squad = squad_id[u], !.pubg = pubg_id[u]])
    /\ UNCHANGED <<db, now>>

join_order_select_order(t) ==
    /\ t.op = "join" /\ t.pc = "order"
    /\ Step(t, IF status[t.order] # "pending"
                  THEN Done(t, "OrderNotPending")
                  ELSE [t EXCEPT !.pc = "own"])
    /\ UNCHANGED <<db, now>>

join_order_select_own(t) ==
    /\ t.op = "join" /\ t.pc = "own"
    /\ Step(t, IF OwnApplications(t.order, t.user) > 0
                  THEN Done(t, "AlreadyApplied")
                  ELSE [t EXCEPT !.pc = "count"])
    /\ UNCHANGED <<db, now>>

join_order_select_count(t) ==
    /\ t.op = "join" /\ t.pc = "count"
    /\ Step(t, IF PoolIsFull(Len(ArrivalsOf(t.order)))
                  THEN Done(t, "PoolFull")
                  ELSE [t EXCEPT !.pc = "insert"])
    /\ UNCHANGED <<db, now>>

join_order_insert(t) ==
    /\ t.op = "join" /\ t.pc = "insert"
    /\ IF OwnApplications(t.order, t.user) > 0
          THEN \* PRIMARY KEY (order_id, escort_id): IntegrityError, no commit
               /\ Step(t, Done(t, "Error"))
               /\ UNCHANGED order_applications
          ELSE /\ order_applications' = Append(order_applications,
                       [order_id |-> t.order, escort_id |-> t.user,
                        squad_id |-> t.squad, pubg_id |-> t.pubg])
               /\ Step(t, Done(t, "Joined"))
    /\ UNCHANGED <<journal, access, ledger, ratings,
                   squad_id, pubg_id, completed_orders, status, order_squad,
                   commission_amount, completed_at, order_escorts, now>>

(***************************************************************************)
(* start_order                                                             *)
(***************************************************************************)
\* len(applications) < 2 or len(applications) > 4
WrongPoolSize(applications) == Len(applications) < 2 \/ Len(applications) > 4

\* winning_squad_id = applications[0][1]
\* Mutant: the squad the first applicant is in now.
WinningSquad_current(applications) == squad_id[applications[1].escort_id]
WinningSquad(applications) == applications[1].squad_id

\* Mutant: the squad filter is dropped.
ValidApplications_any(applications) == applications

\* [app for app in applications if app[1] == winning_squad_id]
ValidApplications(applications) ==
    SelectSeq(applications,
              LAMBDA a : a.squad_id = WinningSquad(applications))

\* commission = order[2] * 0.2
Commission(amount) == (amount * 2) \div 10

EscortsOf(applications) ==
    [i \in 1..Len(applications) |-> applications[i].escort_id]

\* The initiator only has to be in a squad; nothing later depends on who it is.
start_order_get_escort(u, o) ==
    /\ Spawn(IF squad_id[u] = NoSquad
                THEN Done(Task("start", u, o, "escort"), "NotInSquad")
                ELSE Task("start", "-", o, "order"))
    /\ UNCHANGED <<db, now>>

start_order_select_order(t) ==
    /\ t.op = "start" /\ t.pc = "order"
    /\ Step(t, IF status[t.order] # "pending"
                  THEN Done(t, "OrderNotPending")
                  ELSE [t EXCEPT !.pc = "apps"])
    /\ UNCHANGED <<db, now>>

start_order_select_applications(t) ==
    /\ t.op = "start" /\ t.pc = "apps"
    /\ LET applications == ApplicationsOf(t.order) IN
       Step(t, IF WrongPoolSize(applications)
                  THEN Done(t, "InsufficientSquadMembers")
               ELSE IF Len(ValidApplications(applications)) < 2
                  THEN Done(t, "InsufficientSquadMembers")
               ELSE [t EXCEPT !.pc = "pubg",
                        !.winning = WinningSquad(applications),
                        !.valid = EscortsOf(ValidApplications(applications))])
    /\ UNCHANGED <<db, now>>

\* The first SELECT pubg_id of the loop runs before the first INSERT.
start_order_select_pubg(t) ==
    /\ t.op = "start" /\ t.pc = "pubg"
    /\ Step(t, [t EXCEPT !.pc = "commit", !.pubg = pubg_id[t.valid[1]]])
    /\ UNCHANGED <<db, now>>

\* The rows the loop inserts into order_escorts.
NewOrderEscorts(t) ==
    {[order_id |-> t.order, escort_id |-> t.valid[i],
      pubg_id |-> IF i = 1 THEN t.pubg ELSE pubg_id[t.valid[i]]]
        : i \in 1..Len(t.valid)}

\* Mutant: the DELETE of the pool is forgotten.
start_order_commit_keeps_pool(t) ==
    /\ t.op = "start" /\ t.pc = "commit"
    /\ IF Range(t.valid) \cap AssigneesOf(t.order) # {}
          THEN /\ Step(t, Done(t, "Error"))
               /\ UNCHANGED db
          ELSE /\ order_escorts' = order_escorts \cup NewOrderEscorts(t)
               /\ completed_orders' =
                      [w \in Workers |-> IF w \in Range(t.valid)
                                            THEN completed_orders[w] + 1
                                            ELSE completed_orders[w]]
               /\ status' = [status EXCEPT ![t.order] = "in_progress"]
               /\ order_squad' = [order_squad EXCEPT ![t.order] = t.winning]
               /\ commission_amount' =
                      [commission_amount EXCEPT
                          ![t.order] = Commission(Amount(t.order))]
               /\ Step(t, Done(t, "Started"))
               /\ UNCHANGED <<journal, access, ledger, ratings,
                   squad_id, pubg_id, completed_at,
                              order_applications>>
    /\ UNCHANGED now

start_order_commit(t) ==
    /\ t.op = "start" /\ t.pc = "commit"
    /\ IF Range(t.valid) \cap AssigneesOf(t.order) # {}
          THEN \* PRIMARY KEY (order_id, escort_id): IntegrityError, no commit
               /\ Step(t, Done(t, "Error"))
               /\ UNCHANGED db
          ELSE /\ order_escorts' = order_escorts \cup NewOrderEscorts(t)
               /\ completed_orders' =
                      [w \in Workers |-> IF w \in Range(t.valid)
                                            THEN completed_orders[w] + 1
                                            ELSE completed_orders[w]]
               /\ status' = [status EXCEPT ![t.order] = "in_progress"]
               /\ order_squad' = [order_squad EXCEPT ![t.order] = t.winning]
               /\ commission_amount' =
                      [commission_amount EXCEPT
                          ![t.order] = Commission(Amount(t.order))]
               /\ order_applications' = DeleteApplications(t.order)
               /\ Step(t, Done(t, "Started"))
               /\ UNCHANGED <<journal, access, ledger, ratings,
                   squad_id, pubg_id, completed_at>>
    /\ UNCHANGED now

(***************************************************************************)
(* cancel_order                                                            *)
(***************************************************************************)
cancel_order_select_order(u, o) ==
    /\ Spawn(IF status[o] # "pending"
                THEN Done(Task("cancel", u, o, "order"), "OrderAlreadyStarted")
                ELSE Task("cancel", "-", o, "delete"))
    /\ UNCHANGED <<db, now>>

\* Mutant: the cancel also puts the order back to pending.
cancel_order_delete_resets_status(t) ==
    /\ t.op = "cancel" /\ t.pc = "delete"
    /\ order_applications' = DeleteApplications(t.order)
    /\ status' = [status EXCEPT ![t.order] = "pending"]
    /\ Step(t, Done(t, "Cancelled"))
    /\ UNCHANGED <<journal, access, ledger, ratings,
                   squad_id, pubg_id, completed_orders, order_squad,
                   commission_amount, completed_at, order_escorts, now>>

cancel_order_delete(t) ==
    /\ t.op = "cancel" /\ t.pc = "delete"
    /\ order_applications' = DeleteApplications(t.order)
    /\ Step(t, Done(t, "Cancelled"))
    /\ UNCHANGED <<journal, access, ledger, ratings,
                   squad_id, pubg_id, completed_orders, status, order_squad,
                   commission_amount, completed_at, order_escorts, now>>

(***************************************************************************)
(* complete_order_callback (process_complete_order runs the same           *)
(* statements on the order typed by the user)                              *)
(***************************************************************************)
complete_order_get_escort(u, o) ==
    /\ Spawn(Task("complete", u, o, "order"))
    /\ UNCHANGED <<db, now>>

complete_order_select_order(t) ==
    /\ t.op = "complete" /\ t.pc = "order"
    /\ Step(t, IF status[t.order] # "in_progress"
                  THEN Done(t, "OrderAlreadyCompleted")
                  ELSE [t EXCEPT !.pc = "update"])
    /\ UNCHANGED <<db, now>>

\* Mutant: completing counts once more for the assignees.
complete_order_update_counts(t) ==
    /\ t.op = "complete" /\ t.pc = "update"
    /\ \E time \in now..MaxTime :
          /\ now' = time
          /\ completed_at' = [completed_at EXCEPT ![t.order] = time]
    /\ status' = [status EXCEPT ![t.order] = "completed"]
    /\ completed_orders' =
           [w \in Workers |-> IF w \in AssigneesOf(t.order)
                                 THEN completed_orders[w] + 1
                                 ELSE completed_orders[w]]
    /\ Step(t, Done(t, "Completed"))
    /\ UNCHANGED <<journal, access, ledger, ratings,
                   squad_id, pubg_id, order_squad,
                   commission_amount, order_applications, order_escorts>>

complete_order_update(t) ==
    /\ t.op = "complete" /\ t.pc = "update"
    /\ \E time \in now..MaxTime :
          /\ now' = time
          /\ completed_at' = [completed_at EXCEPT ![t.order] = time]
    /\ status' = [status EXCEPT ![t.order] = "completed"]
    /\ Step(t, Done(t, "Completed"))
    /\ UNCHANGED <<journal, access, ledger, ratings,
                   squad_id, pubg_id, completed_orders, order_squad,
                   commission_amount, order_applications, order_escorts>>

(***************************************************************************)
(* Amounts the admin types.                                                *)
(***************************************************************************)
\* float(amount): raises ValueError for "x"; "nan" parses, to a value that
\* is not a number, written here as a number no amount has.
NaN == 0 - 1000000
IsFloat(text) == text \in {"-5", "0", "1000", "nan"}
Float(text) ==
    CASE text = "-5" -> 0 - 5
      [] text = "0" -> 0
      [] text = "1000" -> 1000
      [] text = "nan" -> NaN

\* amount <= 0, false for nan.
NonPositive(amount) == amount # NaN /\ amount <= 0

\* balance + ? in SQL: sqlite3 binds nan as NULL, and NULL + x is NULL.
\* The NULL in the column is written NaN as well.
SqlAdd(x, y) == IF x = NaN \/ y = NaN THEN NaN ELSE x + y

(***************************************************************************)
(* process_payout_request                                                  *)
(***************************************************************************)
\* SELECT COUNT(*) FROM payouts WHERE order_id = ? AND escort_id = ?
PayoutCount(o, e) ==
    Len(SelectSeq(payouts, LAMBDA p : p.order_id = o /\ p.escort_id = e))

\* Mutant: the commission is added to the payout.
PayoutAmount_plus_commission(amount) == amount + Commission(amount)

\* payout_amount = amount - amount * 0.2
PayoutAmount(amount) == amount - Commission(amount)

process_payout_request_get_escort(u, o) ==
    /\ Spawn(Task("payout", u, o, "order"))
    /\ UNCHANGED <<db, now>>

\* SELECT o.id, o.amount FROM orders o JOIN order_escorts ...
\*   WHERE o.status = 'completed' AND e.telegram_id = ?
process_payout_request_select_order(t) ==
    /\ t.op = "payout" /\ t.pc = "order"
    /\ Step(t, IF status[t.order] = "completed" /\ t.user \in AssigneesOf(t.order)
                  THEN [t EXCEPT !.pc = "count", !.amount = Amount(t.order)]
                  ELSE Done(t, "NotFoundOrNotCompleted"))
    /\ UNCHANGED <<db, now>>

\* Mutant: the COUNT of earlier payouts is not looked at.
process_payout_request_select_count_ignored(t) ==
    /\ t.op = "payout" /\ t.pc = "count"
    /\ Step(t, [t EXCEPT !.pc = "insert"])
    /\ UNCHANGED <<db, now>>

process_payout_request_select_count(t) ==
    /\ t.op = "payout" /\ t.pc = "count"
    /\ Step(t, IF PayoutCount(t.order, t.user) > 0
                  THEN Done(t, "AlreadyPaidOut")
                  ELSE [t EXCEPT !.pc = "insert"])
    /\ UNCHANGED <<db, now>>

\* INSERT INTO payouts, UPDATE escorts SET balance, UPDATE orders SET
\* commission_amount, commit.
process_payout_request_commit(t) ==
    /\ t.op = "payout" /\ t.pc = "insert"
    /\ payouts' = Append(payouts, [order_id |-> t.order, escort_id |-> t.user,
                                   amount |-> PayoutAmount(t.amount)])
    /\ balance' = [balance EXCEPT ![t.user] = SqlAdd(@, PayoutAmount(t.amount))]
    /\ commission_amount' =
           [commission_amount EXCEPT ![t.order] = Commission(t.amount)]
    /\ Step(t, Done(t, "Paid"))
    /\ UNCHANGED <<journal, access, ratings, squad_id, pubg_id, completed_orders, status,
                   order_squad, completed_at, order_applications,
                   order_escorts, now>>

(***************************************************************************)
(* process_rate_order, rate_order_callback, update_escort_reputation and   *)
(* update_squad_reputation                                                 *)
(***************************************************************************)
\* escorts.id of the seeded workers, ascending.
WorkerOrder == <<"A", "B", "C", "D", "E">>

\* SELECT escort_id FROM order_escorts WHERE order_id = ?, in the order of
\* the primary key (order_id, escort_id).
EscortsOfOrder(o) == SelectSeq(WorkerOrder, LAMBDA w : w \in AssigneesOf(o))

\* Rate handlers that have not answered yet.
RatesInFlight ==
    BagCardinality([t \in {x \in Running : x.op = "rate" /\ x.pc # "done"}
                       |-> CopiesIn(t, tasks)])

\* The raters stop once a worker or a squad has received MaxRatings ratings.
RatingsLeft ==
    /\ \A w \in Workers : rating_count[w] + RatesInFlight < MaxRatings
    /\ \A q \in Squads : squad_rating_count[q] + RatesInFlight < MaxRatings

\* The form that shows the rating keyboard: only for a completed, unrated
\* order of the caller.
process_rate_order(u, o) ==
    /\ Spawn(Done(Task("prompt", u, o, "order"),
                  IF /\ status[o] = "completed" /\ order_rating[o] = 0
                     /\ u \in AssigneesOf(o)
                     THEN "RatingKeyboard"
                     ELSE "NotFoundNotCompletedOrRated"))
    /\ UNCHANGED <<db, now>>

\* Where the handler goes after the escorts still to update.
AfterEscort(t, rest) ==
    [t EXCEPT !.escorts = rest,
              !.pc = IF rest # <<>> THEN "reputation"
                     ELSE IF t.squad # NoSquad THEN "squad"
                     ELSE "commit"]

\* callback data "rate_<order>_<stars>":
\* SELECT o.id, o.squad_id ... WHERE o.status = 'completed' AND e.telegram_id = ?
rate_order_callback_select_order(u, o, stars) ==
    /\ RatingsLeft
    /\ Spawn(IF status[o] = "completed" /\ u \in AssigneesOf(o)
                THEN [Task("rate", u, o, "escorts") EXCEPT
                         !.squad = order_squad[o], !.stars = stars]
                ELSE Done(Task("rate", u, o, "order"), "NotFoundOrNotCompleted"))
    /\ UNCHANGED <<db, now>>

rate_order_callback_select_escorts(t) ==
    /\ t.op = "rate" /\ t.pc = "escorts"
    /\ Step(t, AfterEscort(t, EscortsOfOrder(t.order)))
    /\ UNCHANGED <<db, now>>

\* Mutant: the rating is not added to the reputation.
update_escort_reputation_no_reputation(t) ==
    /\ t.op = "rate" /\ t.pc = "reputation"
    /\ rating' = [rating EXCEPT ![Head(t.escorts)] = @ + t.stars]
    /\ rating_count' = [rating_count EXCEPT ![Head(t.escorts)] = @ + 1]
    /\ Step(t, AfterEscort(t, Tail(t.escorts)))
    /\ UNCHANGED <<journal, access, ledger, reputation, squad_rating,
                   squad_rating_count, order_rating, squad_id, pubg_id,
                   completed_orders, status, order_squad, commission_amount,
                   completed_at, order_applications, order_escorts, now>>

\* One turn of the loop: update_escort_reputation commits on its own
\* connection.
update_escort_reputation(t) ==
    /\ t.op = "rate" /\ t.pc = "reputation"
    /\ reputation' = [reputation EXCEPT ![Head(t.escorts)] = @ + t.stars]
    /\ rating' = [rating EXCEPT ![Head(t.escorts)] = @ + t.stars]
    /\ rating_count' = [rating_count EXCEPT ![Head(t.escorts)] = @ + 1]
    /\ Step(t, AfterEscort(t, Tail(t.escorts)))
    /\ UNCHANGED <<journal, access, ledger, squad_rating, squad_rating_count,
                   order_rating, squad_id, pubg_id, completed_orders, status,
                   order_squad, commission_amount, completed_at,
                   order_applications, order_escorts, now>>

update_squad_reputation(t) ==
    /\ t.op = "rate" /\ t.pc = "squad"
    /\ squad_rating' = [squad_rating EXCEPT ![t.squad] = @ + t.stars]
    /\ squad_rating_count' = [squad_rating_count EXCEPT ![t.squad] = @ + 1]
    /\ Step(t, [t EXCEPT !.pc = "commit"])
    /\ UNCHANGED <<journal, access, ledger, reputation, rating, rating_count,
                   order_rating, squad_id, pubg_id, completed_orders, status,
                   order_squad, commission_amount, completed_at,
                   order_applications, order_escorts, now>>

\* UPDATE orders SET rating = ?, commit.
rate_order_callback_commit(t) ==
    /\ t.op = "rate" /\ t.pc = "commit"
    /\ order_rating' = [order_rating EXCEPT ![t.order] = t.stars]
    /\ Step(t, Done(t, "Rated"))
    /\ UNCHANGED <<journal, access, ledger, reputation, rating, rating_count,
                   squad_rating, squad_rating_count, squad_id, pubg_id,
                   completed_orders, status, order_squad, commission_amount,
                   completed_at, order_applications, order_escorts, now>>

\* A store write of the rating fails.  update_escort_reputation and
\* update_squad_reputation log the exception and return, so the handler
\* goes on; an exception of the last UPDATE ends the handler with the
\* error message.  What was committed before stays.
update_escort_reputation_fails(t) ==
    /\ t.op = "rate" /\ t.pc = "reputation"
    /\ Step(t, AfterEscort(t, Tail(t.escorts)))
    /\ UNCHANGED <<db, now>>

update_squad_reputation_fails(t) ==
    /\ t.op = "rate" /\ t.pc = "squad"
    /\ Step(t, [t EXCEPT !.pc = "commit"])
    /\ UNCHANGED <<db, now>>

rate_order_callback_commit_fails(t) ==
    /\ t.op = "rate" /\ t.pc = "commit"
    /\ Step(t, Done(t, "Error"))
    /\ UNCHANGED <<db, now>>

(***************************************************************************)
(* process_balance_amount and process_zero_balance                         *)
(***************************************************************************)
\* The credits to worker w that are typed in but not yet written.
RECURSIVE CreditsInFlight(_, _)
CreditsInFlight(w, ts) ==
    IF ts = {} THEN 0
    ELSE LET t == CHOOSE x \in ts : TRUE
         IN  (IF t.op = "credit" /\ t.user = w /\ t.pc # "done"
                    /\ t.amount # NaN
                 THEN t.amount * CopiesIn(t, tasks) ELSE 0)
             + CreditsInFlight(w, ts \ {t})

\* amount = float(...); SELECT id, username FROM escorts WHERE telegram_id = ?
process_balance_amount_select_escort(w, amount) ==
    /\ \/ balance[w] = NaN \/ amount = NaN
       \/ balance[w] + CreditsInFlight(w, Running) + amount <= MaxBalance
    /\ Spawn(IF NonPositive(amount)
                THEN Done(Task("credit", w, "-", "amount"), "NotPositive")
                ELSE [Task("credit", w, "-", "update") EXCEPT !.amount = amount])
    /\ UNCHANGED <<db, now>>

\* Mutant: the balance is overwritten with the amount.
process_balance_amount_update_overwrites(t) ==
    /\ t.op = "credit" /\ t.pc = "update"
    /\ balance' = [balance EXCEPT ![t.user] = t.amount]
    /\ Step(t, Done(t, "Credited"))
    /\ UNCHANGED <<journal, access, ratings, payouts, squad_id, pubg_id,
                   completed_orders, status, order_squad, commission_amount,
                   completed_at, order_applications, order_escorts, now>>

\* UPDATE escorts SET balance = balance + ? WHERE telegram_id = ?, commit.
process_balance_amount_update(t) ==
    /\ t.op = "credit" /\ t.pc = "update"
    /\ balance' = [balance EXCEPT ![t.user] = SqlAdd(@, t.amount)]
    /\ Step(t, Done(t, "Credited"))
    /\ UNCHANGED <<journal, access, ratings, payouts, squad_id, pubg_id,
                   completed_orders, status, order_squad, commission_amount,
                   completed_at, order_applications, order_escorts, now>>

\* SELECT username FROM escorts WHERE telegram_id = ?
process_zero_balance_select_escort(w) ==
    /\ Spawn(Task("zero", w, "-", "update"))
    /\ UNCHANGED <<db, now>>

\* UPDATE escorts SET balance = 0 WHERE telegram_id = ?, commit.
process_zero_balance_update(t) ==
    /\ t.op = "zero" /\ t.pc = "update"
    /\ balance' = [balance EXCEPT ![t.user] = 0]
    /\ Step(t, Done(t, "Zeroed"))
    /\ UNCHANGED <<journal, access, ratings, payouts, squad_id, pubg_id,
                   completed_orders, status, order_squad, commission_amount,
                   completed_at, order_applications, order_escorts, now>>

(***************************************************************************)
(* check_access and the admin's ban and restriction handlers               *)
(***************************************************************************)
\* The value check_access returns for a registered user (initial_start
\* is False everywhere but in /start).
check_access(u) ==
    IF is_banned[u] THEN FALSE
    ELSE IF ban_until[u] # NoTime /\ ban_until[u] > now THEN FALSE
    ELSE IF restrict_until[u] # NoTime /\ restrict_until[u] > now THEN FALSE
    ELSE TRUE

\* A menu handler: it runs check_access first and returns when it is False.
available_orders(u) ==
    /\ Spawn(Done(Task("menu", u, "-", "access"),
                  IF check_access(u) THEN "Allowed" ELSE "Denied"))
    /\ UNCHANGED <<db, now>>

process_ban_permanent(w) ==
    /\ is_banned' = [is_banned EXCEPT ![w] = TRUE]
    /\ ban_until' = [ban_until EXCEPT ![w] = NoTime]
    /\ UNCHANGED <<squad_id, pubg_id, completed_orders, status, order_squad,
                   commission_amount, completed_at, order_applications,
                   order_escorts, restrict_until, ledger, ratings, journal, now,
                   tasks>>

process_ban_duration(w, days) ==
    /\ days > 0
    /\ is_banned' = [is_banned EXCEPT ![w] = TRUE]
    /\ ban_until' = [ban_until EXCEPT ![w] = now + days]
    /\ UNCHANGED <<squad_id, pubg_id, completed_orders, status, order_squad,
                   commission_amount, completed_at, order_applications,
                   order_escorts, restrict_until, ledger, ratings, journal, now,
                   tasks>>

process_restrict_duration(w, days) ==
    /\ days > 0
    /\ restrict_until' = [restrict_until EXCEPT ![w] = now + days]
    /\ UNCHANGED <<squad_id, pubg_id, completed_orders, status, order_squad,
                   commission_amount, completed_at, order_applications,
                   order_escorts, is_banned, ban_until, ledger, ratings, journal,
                   now, tasks>>

\* Time passes between two handlers.
tick ==
    /\ now < MaxTime
    /\ now' = now + 1
    /\ UNCHANGED <<db, tasks>>

(***************************************************************************)
(* The handler's answer: the task ends.                                    *)
(***************************************************************************)
answer(t) ==
    /\ t.pc = "done"
    /\ tasks' = tasks (-) SetToBag({t})
    /\ UNCHANGED <<db, now>>

(***************************************************************************)
(* Specification.                                                          *)
(***************************************************************************)
InitDb ==
    /\ squad_id = [w \in Workers |-> SeedSquad(w)]
    /\ pubg_id = [w \in Workers |-> SeedPubg(w)]
    /\ completed_orders = [w \in Workers |-> 0]
    /\ status = [o \in Orders |-> "pending"]
    /\ order_squad = [o \in Orders |-> NoSquad]
    /\ commission_amount = [o \in Orders |-> 0]
    /\ completed_at = [o \in Orders |-> NoTime]
    /\ order_applications = <<>>
    /\ order_escorts = {}
    /\ is_banned = [w \in Workers |-> FALSE]
    /\ ban_until = [w \in Workers |-> NoTime]
    /\ restrict_until = [w \in Workers |-> NoTime]
    /\ balance = [w \in Workers |-> 0]
    /\ payouts = <<>>
    /\ action_log = <<>>
    /\ new_orders = <<>>
    /\ squads = Squads
    /\ memo_order_id = [o \in Orders |-> o]
    /\ reputation = [w \in Workers |-> 0]
    /\ rating = [w \in Workers |-> 0]
    /\ rating_count = [w \in Workers |-> 0]
    /\ squad_rating = [s \in Squads |-> 0]
    /\ squad_rating_count = [s \in Squads |-> 0]
    /\ order_rating = [o \in Orders |-> 0]
    /\ now = 1

Init ==
    /\ InitDb
    /\ tasks = EmptyBag

\* The workers who act in the main specification.
Callers == {"A", "B", "C", "D"}

JoinSteps ==
    \/ \E t \in Running : join_order_select_order(t)
    \/ \E t \in Running : join_order_select_own(t)
    \/ \E t \in Running : join_order_select_count(t)
    \/ \E t \in Running : join_order_insert(t)

StartSteps ==
    \/ \E t \in Running : start_order_select_order(t)
    \/ \E t \in Running : start_order_select_applications(t)
    \/ \E t \in Running : start_order_select_pubg(t)
    \/ \E t \in Running : start_order_commit(t)

Next ==
    \/ \E u \in Callers, o \in Orders : join_order_get_escort(u, o)
    \/ JoinSteps
    \/ \E u \in Callers, o \in Orders : start_order_get_escort(u, o)
    \/ StartSteps
    \/ \E u \in Callers, o \in Orders : cancel_order_select_order(u, o)
    \/ \E t \in Running : cancel_order_delete(t)
    \/ \E u \in Callers, o \in Orders : complete_order_get_escort(u, o)
    \/ \E t \in Running : complete_order_select_order(t)
    \/ \E t \in Running : complete_order_update(t)
    \/ \E t \in Running : answer(t)

Spec == Init /\ [][Next]_vars

(***************************************************************************)
(* The applicant pool alone: every seeded worker may apply, start or       *)
(* cancel.                                                                 *)
(***************************************************************************)
NextPool ==
    \/ \E u \in Workers, o \in Orders : join_order_get_escort(u, o)
    \/ JoinSteps
    \/ \E u \in Workers, o \in Orders : start_order_get_escort(u, o)
    \/ StartSteps
    \/ \E u \in Workers, o \in Orders : cancel_order_select_order(u, o)
    \/ \E t \in Running : cancel_order_delete(t)
    \/ \E t \in Running : answer(t)

SpecPool == Init /\ [][NextPool]_vars

(***************************************************************************)
(* Five workers press "join" on the same pending order at the same time:   *)
(* the five handlers have read their escort rows and run to their answers. *)
(***************************************************************************)
FiveJoins ==
    {[Task("join", w, "O1", "order") EXCEPT
         !.squad = SeedSquad(w), !.pubg = SeedPubg(w)] : w \in Workers}

InitFive ==
    /\ InitDb
    /\ tasks = SetToBag(FiveJoins)

SpecFive == InitFive /\ [][JoinSteps]_vars

(***************************************************************************)
(* The access gate: the admin bans and restricts two workers while they    *)
(* open the menu and apply to the order, and time passes.                  *)
(***************************************************************************)
GateWorkers == {"A", "D"}

NextGate ==
    \/ \E w \in GateWorkers : process_ban_permanent(w)
    \/ \E w \in GateWorkers, days \in 1..MaxDays : process_ban_duration(w, days)
    \/ \E w \in GateWorkers, days \in 1..MaxDays :
          process_restrict_duration(w, days)
    \/ tick
    \/ \E u \in GateWorkers : available_orders(u)
    \/ \E u \in GateWorkers, o \in Orders : join_order_get_escort(u, o)
    \/ JoinSteps
    \/ \E t \in Running : answer(t)

SpecGate == Init /\ [][NextGate]_vars

(***************************************************************************)
(* Settlement.  Order O1 was started for A and B of squad S1 while a       *)
(* second start_order, which had read an earlier pool of C and D, was      *)
(* still in flight; that handler may still be waiting before its commit.   *)
(***************************************************************************)
StartedFor == <<"A", "B">>

StaleStart ==
    [Task("start", "-", "O1", "commit") EXCEPT
        !.valid = <<"C", "D">>, !.winning = "S2", !.pubg = SeedPubg("C")]

InitStarted ==
    /\ squad_id = [w \in Workers |-> SeedSquad(w)]
    /\ pubg_id = [w \in Workers |-> SeedPubg(w)]
    /\ completed_orders =
           [w \in Workers |-> IF w \in Range(StartedFor) THEN 1 ELSE 0]
    /\ status = [o \in Orders |-> "in_progress"]
    /\ order_squad = [o \in Orders |-> SeedSquad(StartedFor[1])]
    /\ commission_amount = [o \in Orders |-> Commission(Amount(o))]
    /\ completed_at = [o \in Orders |-> NoTime]
    /\ order_applications = <<>>
    /\ order_escorts = {[order_id |-> "O1", escort_id |-> w,
                         pubg_id |-> SeedPubg(w)] : w \in Range(StartedFor)}
    /\ is_banned = [w \in Workers |-> FALSE]
    /\ ban_until = [w \in Workers |-> NoTime]
    /\ restrict_until = [w \in Workers |-> NoTime]
    /\ balance = [w \in Workers |-> 0]
    /\ payouts = <<>>
    /\ action_log = <<>>
    /\ new_orders = <<>>
    /\ squads = Squads
    /\ memo_order_id = [o \in Orders |-> o]
    /\ reputation = [w \in Workers |-> 0]
    /\ rating = [w \in Workers |-> 0]
    /\ rating_count = [w \in Workers |-> 0]
    /\ squad_rating = [s \in Squads |-> 0]
    /\ squad_rating_count = [s \in Squads |-> 0]
    /\ order_rating = [o \in Orders |-> 0]
    /\ now = 1
    /\ tasks \in {EmptyBag, SetToBag({StaleStart})}

\* The workers who ask for a payout: two assignees and an outsider.
PayoutCallers == {"A", "B", "E"}

PayoutSteps ==
    \/ \E t \in Running : process_payout_request_select_order(t)
    \/ \E t \in Running : process_payout_request_select_count(t)
    \/ \E t \in Running : process_payout_request_commit(t)

NextPayout ==
    \/ \E t \in Running : start_order_commit(t)
    \/ \E o \in Orders : complete_order_get_escort("A", o)
    \/ \E t \in Running : complete_order_select_order(t)
    \/ \E t \in Running : complete_order_update(t)
    \/ \E u \in PayoutCallers, o \in Orders :
          process_payout_request_get_escort(u, o)
    \/ PayoutSteps
    \/ \E t \in Running : answer(t)

SpecPayout == InitStarted /\ [][NextPayout]_vars

(***************************************************************************)
(* Rating of the started order: A completes it, an assignee and an         *)
(* outsider open the rating form and send rating callbacks.                *)
(***************************************************************************)
Raters == {"A", "E"}
\* The stars of a callback: the keyboard sends 1..5, but the data of a
\* callback is whatever the client sends.
StarsSent == {3, 6}

RateSteps ==
    \/ \E t \in Running : rate_order_callback_select_escorts(t)
    \/ \E t \in Running : update_escort_reputation(t)
    \/ \E t \in Running : update_squad_reputation(t)
    \/ \E t \in Running : rate_order_callback_commit(t)

NextRate ==
    \/ \E t \in Running : start_order_commit(t)
    \/ \E o \in Orders : complete_order_get_escort("A", o)
    \/ \E t \in Running : complete_order_select_order(t)
    \/ \E t \in Running : complete_order_update(t)
    \/ \E u \in Raters, o \in Orders : process_rate_order(u, o)
    \/ \E u \in Raters, o \in Orders, stars \in StarsSent :
          rate_order_callback_select_order(u, o, stars)
    \/ RateSteps
    \/ \E t \in Running : answer(t)

SpecRate == InitStarted /\ [][NextRate]_vars

(***************************************************************************)
(* Rating with store writes that may fail: A completes the started order   *)
(* and sends rating callbacks of 3 stars.                                  *)
(***************************************************************************)
InitRateFail ==
    /\ InitStarted
    /\ tasks = EmptyBag

NextRateFail ==
    \/ \E o \in Orders : complete_order_get_escort("A", o)
    \/ \E t \in Running : complete_order_select_order(t)
    \/ \E t \in Running : complete_order_update(t)
    \/ \E o \in Orders : rate_order_callback_select_order("A", o, 3)
    \/ RateSteps
    \/ \E t \in Running : update_escort_reputation_fails(t)
    \/ \E t \in Running : update_squad_reputation_fails(t)
    \/ \E t \in Running : rate_order_callback_commit_fails(t)
    \/ \E t \in Running : answer(t)

SpecRateFail == InitRateFail /\ [][NextRateFail]_vars

(***************************************************************************)
(* The balance of worker A: the order was completed, A asks for the        *)
(* payout while the admin credits and zeroes A's balance.                  *)
(***************************************************************************)
InitCompleted ==
    /\ squad_id = [w \in Workers |-> SeedSquad(w)]
    /\ pubg_id = [w \in Workers |-> SeedPubg(w)]
    /\ completed_orders =
           [w \in Workers |-> IF w \in Range(StartedFor) THEN 1 ELSE 0]
    /\ status = [o \in Orders |-> "completed"]
    /\ order_squad = [o \in Orders |-> SeedSquad(StartedFor[1])]
    /\ commission_amount = [o \in Orders |-> Commission(Amount(o))]
    /\ completed_at = [o \in Orders |-> 1]
    /\ order_applications = <<>>
    /\ order_escorts = {[order_id |-> "O1", escort_id |-> w,
                         pubg_id |-> SeedPubg(w)] : w \in Range(StartedFor)}
    /\ is_banned = [w \in Workers |-> FALSE]
    /\ ban_until = [w \in Workers |-> NoTime]
    /\ restrict_until = [w \in Workers |-> NoTime]
    /\ balance = [w \in Workers |-> 0]
    /\ payouts = <<>>
    /\ action_log = <<>>
    /\ new_orders = <<>>
    /\ squads = Squads
    /\ memo_order_id = [o \in Orders |-> o]
    /\ reputation = [w \in Workers |-> 0]
    /\ rating = [w \in Workers |-> 0]
    /\ rating_count = [w \in Workers |-> 0]
    /\ squad_rating = [s \in Squads |-> 0]
    /\ squad_rating_count = [s \in Squads |-> 0]
    /\ order_rating = [o \in Orders |-> 0]
    /\ now = 1
    /\ tasks = EmptyBag

\* What the admin types as amount.
CreditAmounts == {0, 500}

NextBalance ==
    \/ \E o \in Orders : process_payout_request_get_escort("A", o)
    \/ PayoutSteps
    \/ \E amount \in CreditAmounts :
          process_balance_amount_select_escort("A", amount)
    \/ \E t \in Running : process_balance_amount_update(t)
    \/ process_zero_balance_select_escort("A")
    \/ \E t \in Running : process_zero_balance_update(t)
    \/ \E t \in Running : answer(t)

SpecBalance == InitCompleted /\ [][NextBalance]_vars

(***************************************************************************)
(* Properties.                                                             *)
(***************************************************************************)
\* A step of task t: one copy of it leaves the bag.
Left(t) == CopiesIn(t, tasks') < CopiesIn(t, tasks)

\* A handler reaches its answer r in this step.
Answered(r) == CopiesIn(r, tasks') > CopiesIn(r, tasks)

Answer(op, o, res) == Done(Task(op, "-", o, "done"), res)

StartSucceeds(o) == Answered(Answer("start", o, "Started"))

NewAssignees(o) == AssigneesOf(o)' \ AssigneesOf(o)

\* C1: in every reachable state each order has at most 4 live Applications.
C1_PoolCap == \A o \in Orders : Len(ArrivalsOf(o)) <= 4

\* C2: when five eligible workers apply concurrently to a pending order with
\* an empty pool, then once all five handlers have answered exactly 4
\* Applications persist and exactly one caller was rejected with PoolFull.
C2_FiveConcurrentApply ==
    (\A t \in Running : t.pc = "done") =>
        /\ Len(ApplicationsOf("O1")) = 4
        /\ CopiesIn(Answer("join", "O1", "PoolFull"), tasks) = 1

\* C3: an order's status never moves backwards along
\* pending -> in_progress -> completed.
StatusRank(s) == CASE s = "pending" -> 0 [] s = "in_progress" -> 1
                   [] s = "completed" -> 2

C3_StatusMonotonic ==
    [][\A o \in Orders : StatusRank(status'[o]) >= StatusRank(status[o])]_vars

StartTouches(o) ==
    \/ status[o] # "in_progress" /\ status'[o] = "in_progress"
    \/ AssigneesOf(o)' # AssigneesOf(o)
    \/ order_squad'[o] # order_squad[o]
    \/ commission_amount'[o] # commission_amount[o]

StartEffects(o) ==
    /\ status'[o] = "in_progress"
    /\ \E t \in Running :
          /\ t.op = "start" /\ t.order = o /\ Left(t)
          /\ order_squad'[o] = t.winning
          /\ NewAssignees(o) = Range(t.valid)
    /\ order_squad'[o] # NoSquad
    /\ commission_amount'[o] * 10 = Amount(o) * 2
    /\ order_escorts \subseteq order_escorts'
    /\ Cardinality(NewAssignees(o)) >= 2
    /\ Cardinality(order_escorts' \ order_escorts) =
           Cardinality(NewAssignees(o))
    /\ \A w \in Workers :
          completed_orders'[w] =
              completed_orders[w] + (IF w \in NewAssignees(o) THEN 1 ELSE 0)
    /\ ApplicationsOf(o)' = <<>>

C5_StartAtomic ==
    [][/\ \A o \in Orders : StartTouches(o) => StartEffects(o)
       /\ completed_orders' # completed_orders =>
              \E o \in Orders : StartEffects(o)]_vars

\* Scenario A: A(S1), B(S1), C(S2) applied, start committed.
C5_Witness ==
    /\ status["O1"] = "in_progress"
    /\ order_squad["O1"] = "S1"
    /\ commission_amount["O1"] = 200
    /\ AssigneesOf("O1") = {"A", "B"}
    /\ completed_orders = [w \in Workers |-> IF w \in {"A", "B"} THEN 1 ELSE 0]
    /\ order_applications = <<>>
    /\ BagIn(Answer("start", "O1", "Started"), tasks)

\* C6: a start that reads the pool of a pending order holding fewer than 2
\* applications, or fewer than 2 applications of the earliest applicant's squad
\* (even when another squad has 2 or more), answers
\* InsufficientSquadMembers and changes nothing in the store.
FirstSquadCount(o) ==
    Cardinality({i \in 1..Len(ArrivalsOf(o)) :
                    ArrivalsOf(o)[i].squad_id = ArrivalsOf(o)[1].squad_id})

C7_StartOnce ==
    [][\A o \in Orders :
          StartSucceeds(o) => status[o] = "pending" /\ AssigneesOf(o) = {}]_vars

\* C8: no Application row exists for an order that is in_progress or
\* completed.
C8_NoApplicationAfterStart ==
    \A o \in Orders : status[o] # "pending" => ApplicationsOf(o) = <<>>

\* C9: a complete call by a worker who holds no Assignment on an
\* in_progress order leaves the order in_progress and writes no completed_at.
C9_OnlyAssigneeCompletes ==
    [][\A t \in Running :
          (/\ t.op = "complete" /\ Left(t)
           /\ status[t.order] = "in_progress"
           /\ t.user \notin AssigneesOf(t.order)) =>
              /\ status'[t.order] = "in_progress"
              /\ completed_at'[t.order] = completed_at[t.order]]_vars

\* C10: once an order is completed its completed_at never changes again.
C10_CompletedAtKept ==
    [][\A o \in Orders :
          status[o] = "completed" => completed_at'[o] = completed_at[o]]_vars

\* The worker is barred in the current state: banned for good, banned until
\* a time still to come, or restricted until a time still to come.
BannedPermanent(w) == is_banned[w] /\ ban_until[w] = NoTime
BannedUntilFuture(w) == ban_until[w] # NoTime /\ ban_until[w] > now
RestrictedUntilFuture(w) == restrict_until[w] # NoTime /\ restrict_until[w] > now
Barred(w) == BannedPermanent(w) \/ BannedUntilFuture(w) \/ RestrictedUntilFuture(w)

\* C11: while a worker is banned for good, banned until a future time or
\* restricted until a future time, no step of one of their apply, start,
\* cancel, complete, request_payout or rate calls changes the database: no
\* Application, Assignment, Order, Payout or balance changes.
C11_GateGuardsWorkerCalls ==
    [][\A t \in Running :
          (Left(t) /\ t.user \in Workers /\ t.op # "menu" /\ Barred(t.user))
              => UNCHANGED db]_vars

\* C12: a worker banned until ts by the timed ban, and not restricted, is
\* denied by the gate while now < ts and allowed as soon as now >= ts.
C12_TimedBanExpires ==
    \A w \in Workers :
        (ban_until[w] # NoTime /\ ~RestrictedUntilFuture(w))
            => (check_access(w) <=> now >= ban_until[w])

\* The Payout rows of order o and the sum of their amounts.
PayoutsOf(o) == SelectSeq(payouts, LAMBDA p : p.order_id = o)

RECURSIVE SumAmounts(_)
SumAmounts(rows) ==
    IF rows = <<>> THEN 0 ELSE Head(rows).amount + SumAmounts(Tail(rows))

\* C13: a step of request_payout taken while the order is not completed or
\* the caller holds no Assignment inserts no Payout and leaves every balance
\* alone; and every Payout row belongs to a completed order and to a worker
\* assigned to it.
C13_PayoutNeedsCompletedAssigned ==
    /\ [][\A t \in Running :
            (/\ Left(t) /\ t.op = "payout"
             /\ \/ status[t.order] # "completed"
                \/ t.user \notin AssigneesOf(t.order))
                => UNCHANGED ledger]_vars
    /\ [](\A i \in 1..Len(payouts) :
            /\ status[payouts[i].order_id] = "completed"
            /\ payouts[i].escort_id \in AssigneesOf(payouts[i].order_id))

\* C14: the request_payout that finds no Payout of its caller credits the
\* balance by amount minus the stored commission (800) and inserts one row;
\* the request that finds one answers AlreadyPaidOut and changes nothing.
C14_PayoutIdempotent ==
    [][\A t \in Running :
          (Left(t) /\ t.op = "payout") =>
              /\ (t.pc = "insert" /\ PayoutCount(t.order, t.user) = 0) =>
                    /\ balance'[t.user] = balance[t.user]
                          + Amount(t.order) - commission_amount[t.order]
                    /\ balance'[t.user] = balance[t.user] + 800
                    /\ PayoutCount(t.order, t.user)' = 1
                    /\ Len(payouts') = Len(payouts) + 1
              /\ (t.pc = "count" /\ PayoutCount(t.order, t.user) > 0) =>
                    /\ Answered(Answer("payout", t.order, "AlreadyPaidOut"))
                    /\ UNCHANGED db]_vars

\* A paid once, and a later request of A was answered AlreadyPaidOut.
C14_Witness ==
    /\ Len(payouts) = 1 /\ payouts[1].escort_id = "A"
    /\ balance["A"] = 800
    /\ Answer("payout", "O1", "AlreadyPaidOut") \in Running

\* C15: there is at most one Payout row per (order, worker).
C15_OnePayoutPerAssignee ==
    \A o \in Orders, w \in Workers : PayoutCount(o, w) <= 1

\* C16: every Payout amount is the order's amount minus the stored
\* commission_amount, request_payout does not change commission_amount,
\* and once every assignee is paid the Payouts of the order sum to
\* assignee_count * amount * 0.80.
C16_FullPayoutPerAssignee ==
    /\ [](\A i \in 1..Len(payouts) :
            payouts[i].amount = Amount(payouts[i].order_id)
                                  - commission_amount[payouts[i].order_id])
    /\ [][\A t \in Running :
            (Left(t) /\ t.op = "payout")
                => commission_amount' = commission_amount]_vars
    /\ [](\A o \in Orders :
            (/\ AssigneesOf(o) # {}
             /\ \A w \in AssigneesOf(o) : PayoutCount(o, w) >= 1)
                => SumAmounts(PayoutsOf(o)) * 10
                     = Cardinality(AssigneesOf(o)) * Amount(o) * 8)

C18_RatedOnce ==
    [][\A t \in Running :
          (Left(t) /\ t.op = "rate" /\ order_rating[t.order] # 0)
              => UNCHANGED ratings]_vars

\* The task t has moved to t2 in this step.
Moved(t, t2) == Left(t) /\ Answered(t2)

\* C19: a rate call that passed its checks reads every assignee of the
\* order once; each turn of its loop adds the stars to the reputation and
\* the rating sum and 1 to the rating count of the next of them and of
\* nobody else; then the stars are added to the assigned squad and to no
\* other squad; then order.rating is set to the stars and the call answers.
C19_RateEffect ==
    [][\A t \in Running : (Left(t) /\ t.op = "rate") =>
          /\ t.pc = "escorts" =>
                \E t2 \in BagToSet(tasks') :
                    /\ Moved(t, t2)
                    /\ Range(t2.escorts) = AssigneesOf(t.order)
                    /\ Len(t2.escorts) = Cardinality(AssigneesOf(t.order))
                    /\ t2.stars = t.stars /\ t2.squad = t.squad
                    /\ UNCHANGED db
          /\ t.pc = "reputation" =>
                /\ \A w \in Workers :
                      IF w = Head(t.escorts)
                         THEN /\ reputation'[w] = reputation[w] + t.stars
                              /\ rating'[w] = rating[w] + t.stars
                              /\ rating_count'[w] = rating_count[w] + 1
                         ELSE /\ reputation'[w] = reputation[w]
                              /\ rating'[w] = rating[w]
                              /\ rating_count'[w] = rating_count[w]
                /\ UNCHANGED <<squad_rating, squad_rating_count, order_rating>>
                /\ Moved(t, AfterEscort(t, Tail(t.escorts)))
          /\ t.pc = "squad" =>
                /\ \A q \in Squads :
                      IF q = t.squad
                         THEN /\ squad_rating'[q] = squad_rating[q] + t.stars
                              /\ squad_rating_count'[q] = squad_rating_count[q] + 1
                         ELSE /\ squad_rating'[q] = squad_rating[q]
                              /\ squad_rating_count'[q] = squad_rating_count[q]
                /\ UNCHANGED <<reputation, rating, rating_count, order_rating>>
                /\ Moved(t, [t EXCEPT !.pc = "commit"])
          /\ t.pc = "commit" =>
                /\ t.escorts = <<>>
                /\ order_rating'[t.order] = t.stars
                /\ UNCHANGED <<reputation, rating, rating_count, squad_rating,
                               squad_rating_count>>
                /\ Answered(Answer("rate", t.order, "Rated"))]_vars

\* One rating of 3 stars went through: A and B, the assignees, and their
\* squad S1 have 3 stars and one rating, nobody else has any.
C19_Witness ==
    /\ Answer("rate", "O1", "Rated") \in Running
    /\ order_rating["O1"] = 3
    /\ AssigneesOf("O1") = {"A", "B"}
    /\ \A w \in Workers :
          /\ reputation[w] = IF w \in {"A", "B"} THEN 3 ELSE 0
          /\ rating[w] = reputation[w]
          /\ rating_count[w] = IF w \in {"A", "B"} THEN 1 ELSE 0
    /\ squad_rating = [q \in Squads |-> IF q = "S1" THEN 3 ELSE 0]
    /\ squad_rating_count = [q \in Squads |-> IF q = "S1" THEN 1 ELSE 0]

\* C20: no step of a rate call whose stars are outside 1..5, whose caller
\* holds no Assignment or whose order is not completed changes a rating
\* column; and order.rating is in 0..5 and non-zero only for completed
\* orders.
C20_RateRejected ==
    /\ [][\A t \in Running :
            (/\ Left(t) /\ t.op = "rate"
             /\ \/ t.stars \notin 1..5
                \/ t.user \notin AssigneesOf(t.order)
                \/ status[t.order] # "completed")
                => UNCHANGED ratings]_vars
    /\ [](\A o \in Orders :
            /\ order_rating[o] \in 0..5
            /\ order_rating[o] # 0 => status[o] = "completed")

\* C21: rate leaves no partial state: in no reachable state has an assignee
\* of an order a rating counted while the order's rating is still 0.
C21_RateFailsClosed ==
    \A o \in Orders :
        order_rating[o] = 0 => \A w \in AssigneesOf(o) : rating_count[w] = 0

\* A handler starts in this step.
Spawned == BagCardinality(tasks') > BagCardinality(tasks)

\* C22: the delete step of cancel removes every Application of its order
\* and changes nothing else: no status, squad, commission_amount,
\* Assignment, Payout or rating; a cancel that finds the order pending goes
\* on to that step, a cancel that finds it in_progress or completed answers
\* OrderAlreadyStarted and changes nothing.
C22_CancelFrame ==
    [][/\ \A t \in Running :
            (Left(t) /\ t.op = "cancel" /\ t.pc = "delete") =>
                /\ order_applications' = DeleteApplications(t.order)
                /\ ApplicationsOf(t.order)' = <<>>
                /\ UNCHANGED <<squad_id, pubg_id, completed_orders, status,
                               order_squad, commission_amount, completed_at,
                               order_escorts, access, ledger, ratings>>
                /\ Answered(Answer("cancel", t.order, "Cancelled"))
       /\ \A r \in BagToSet(tasks') :
            (Spawned /\ Answered(r) /\ r.op = "cancel") =>
                /\ UNCHANGED db
                /\ IF status[r.order] = "pending"
                      THEN r.pc = "delete"
                      ELSE r = Answer("cancel", r.order, "OrderAlreadyStarted")
      ]_vars

\* A cancel that raced with start_order was answered after the start, a
\* later cancel was refused, and the order is as the start left it.
C22_Witness ==
    /\ Answer("cancel", "O1", "Cancelled") \in Running
    /\ Answer("cancel", "O1", "OrderAlreadyStarted") \in Running
    /\ status["O1"] = "in_progress"
    /\ AssigneesOf("O1") = {"A", "B"}
    /\ order_squad["O1"] = "S1"
    /\ commission_amount["O1"] = 200

\* C23: every balance mutation is applied to the balance that the mutation
\* committed before it left: a payout and an admin credit add their amount
\* to it, a zeroing sets it to 0, only for their worker, and no other step
\* changes a balance; the final balance is the result of the mutations in
\* the order of their commits.
C23_BalanceSerial ==
    [][\A t \in Running : Left(t) =>
          balance' =
             IF t.op = "payout" /\ t.pc = "insert"
                THEN [balance EXCEPT ![t.user] = @ + PayoutAmount(t.amount)]
             ELSE IF t.op = "credit" /\ t.pc = "update"
                THEN [balance EXCEPT ![t.user] = @ + t.amount]
             ELSE IF t.op = "zero" /\ t.pc = "update"
                THEN [balance EXCEPT ![t.user] = 0]
             ELSE balance]_vars

\* A payout and a credit were in flight together and both are in the
\* balance.
C23_Witness ==
    /\ Answer("payout", "O1", "Paid") \in Running
    /\ Answer("credit", "-", "Credited") \in Running
    /\ balance["A"] = 1300

(***************************************************************************)
(* action_log: what a handler does after its commit.  The reply            *)
(* (callback.message.edit_text, message.answer) comes first and is not     *)
(* guarded; log_action comes last.                                         *)
(***************************************************************************)
MaxLog == 3

\* The results a handler answers after it committed a change.
CommittedResults ==
    {"Joined", "Started", "Cancelled", "Completed", "Paid", "Rated",
     "Credited", "Zeroed"}

Committed(t) == t.pc = "done" /\ t.res \in CommittedResults

\* The action_type the handler passes to log_action.
ActionType(op) ==
    CASE op = "join" -> "join_order"
      [] op = "start" -> "start_order"
      [] op = "cancel" -> "cancel_order"
      [] op = "complete" -> "complete_order"
      [] op = "payout" -> "payout_request"
      [] op = "rate" -> "rate_order"
      [] op = "credit" -> "add_balance"
      [] op = "zero" -> "zero_balance"

LogEntry(t) == [action_type |-> ActionType(t.op), order_id |-> t.order]

\* log_action: INSERT INTO action_log, commit.
log_action(t) == Append(action_log, LogEntry(t))

\* The handler replies and ends; after a commit it calls log_action last.
reply(t) ==
    /\ t.pc = "done"
    /\ action_log' = IF Committed(t) THEN log_action(t) ELSE action_log
    /\ tasks' = tasks (-) SetToBag({t})
    /\ UNCHANGED <<squad_id, pubg_id, completed_orders, status, order_squad,
                   commission_amount, completed_at, order_applications,
                   order_escorts, access, ledger, ratings, new_orders, squads,
                   memo_order_id, now>>

\* The reply raises (the message is gone, Telegram refuses the edit): the
\* handler's except clause answers the error text and log_action is not
\* reached.  log_action swallowing its own failure ends the same way.
reply_fails(t) ==
    /\ Committed(t)
    /\ tasks' = tasks (-) SetToBag({t})
    /\ UNCHANGED <<db, now>>

\* The handlers the log specification starts while the log has room.
LogCallers == {"A", "B"}

LogRoom == Len(action_log) + BagCardinality(tasks) < MaxLog

NextLog ==
    \/ LogRoom /\ \E u \in LogCallers, o \in Orders : join_order_get_escort(u, o)
    \/ JoinSteps
    \/ LogRoom /\ \E u \in LogCallers, o \in Orders : start_order_get_escort(u, o)
    \/ StartSteps
    \/ LogRoom /\ \E u \in LogCallers, o \in Orders : cancel_order_select_order(u, o)
    \/ \E t \in Running : cancel_order_delete(t)
    \/ \E t \in Running : reply(t)
    \/ \E t \in Running : reply_fails(t)

SpecLog == Init /\ [][NextLog]_vars

\* C24: a call that committed a change appends exactly one entry to the
\* action log when it ends, the entries before it stay as they are, and
\* no other step touches the log.
C24_OneLogEntryPerCommit ==
    [][IF \E t \in Running : Left(t) /\ Committed(t)
          THEN \E t \in Running :
                   /\ Left(t) /\ Committed(t)
                   /\ action_log' = Append(action_log, LogEntry(t))
          ELSE action_log' = action_log]_vars

\* A join committed and ended, and the log is empty.
C24_Unlogged ==
    /\ order_applications # <<>>
    /\ tasks = EmptyBag
    /\ action_log = <<>>

(***************************************************************************)
(* check_pending_orders, the scheduler's job.                              *)
(***************************************************************************)
\* The seeded orders in rowid order.
OrderRows == <<"O1">>

\* SELECT id, memo_order_id, squad_id FROM orders
\* WHERE status = 'in_progress' AND created_at < ?
\* created_at is not part of the state: any set of orders may be the old ones.
StaleOrders_any_status(old) == SelectSeq(OrderRows, LAMBDA o : o \in old)
StaleOrders(old) ==
    SelectSeq(OrderRows, LAMBDA o : status[o] = "in_progress" /\ o \in old)

\* The job runs its SELECT; with no row it is over.
check_pending_orders_select ==
    /\ LogRoom
    /\ \E old \in SUBSET Orders :
           IF StaleOrders(old) = <<>>
              THEN UNCHANGED tasks
              ELSE Spawn([Task("sweep", "-", "-", "remind")
                              EXCEPT !.rows = StaleOrders(old)])
    /\ UNCHANGED <<db, now>>

\* notify_squad and log_action("reminder_sent") for the next row.
check_pending_orders_remind(t) ==
    /\ t.op = "sweep" /\ t.pc = "remind"
    /\ action_log' = Append(action_log, [action_type |-> "reminder_sent",
                                         order_id |-> Head(t.rows)])
    /\ IF Tail(t.rows) = <<>>
          THEN tasks' = tasks (-) SetToBag({t})
          ELSE Step(t, [t EXCEPT !.rows = Tail(t.rows)])
    /\ UNCHANGED <<squad_id, pubg_id, completed_orders, status, order_squad,
                   commission_amount, completed_at, order_applications,
                   order_escorts, access, ledger, ratings, new_orders, squads,
                   memo_order_id, now>>

\* The job runs while A and B join, A starts and completes the order.
NextSweep ==
    \/ \E u \in LogCallers, o \in Orders : join_order_get_escort(u, o)
    \/ JoinSteps
    \/ \E o \in Orders : start_order_get_escort("A", o)
    \/ StartSteps
    \/ \E o \in Orders : complete_order_get_escort("A", o)
    \/ \E t \in Running : complete_order_select_order(t)
    \/ \E t \in Running : complete_order_update(t)
    \/ check_pending_orders_select
    \/ \E t \in Running : check_pending_orders_remind(t)
    \/ \E t \in Running : answer(t)

SpecSweep == Init /\ [][NextSweep]_vars

\* The reminders the log holds.
Reminders == SelectSeq(action_log, LAMBDA e : e.action_type = "reminder_sent")

\* C25: the scan of the sweep changes nothing and picks only orders that
\* are in_progress at that moment; each reminder of the sweep is for the
\* next picked order and leaves status, squad, Assignments, Applications,
\* Payouts and balances as they are.
C25_SweepFrame ==
    [][/\ \A r \in BagToSet(tasks') :
              (Spawned /\ Answered(r) /\ r.op = "sweep") =>
                  /\ UNCHANGED db
                  /\ \A o \in Range(r.rows) : status[o] = "in_progress"
       /\ \A t \in Running :
              (t.op = "sweep" /\ CopiesIn(t, tasks') < CopiesIn(t, tasks)) =>
                  /\ Reminders' = Append(Reminders, [action_type |-> "reminder_sent",
                                                     order_id |-> Head(t.rows)])
                  /\ UNCHANGED <<status, order_squad, order_escorts,
                                 order_applications, commission_amount,
                                 completed_at, ledger, ratings>>
       /\ (\A t \in Running : t.op = "sweep" => ~Left(t))
              => Reminders' = Reminders]_vars

\* The sweep reminded of an order that was completed after the scan.
C25_Witness ==
    /\ Reminders # <<>>
    /\ status["O1"] = "completed"
    /\ \A t \in Running : t.op # "sweep"

(***************************************************************************)
(* process_add_order                                                       *)
(***************************************************************************)
MaxOrders == 2

\* The keys and the amount texts the admin sends; "O1" is the seeded order.
MemoOrderIds == {"O1", "O2", "O3"}
AmountTexts == {"-5", "0", "1000", "nan", "x"}

\* SELECT id FROM orders WHERE memo_order_id = ?
OrderExists(key) ==
    \/ \E o \in DOMAIN memo_order_id : memo_order_id[o] = key
    \/ \E i \in 1..Len(new_orders) : new_orders[i].memo_order_id = key

\* The row INSERT INTO orders (memo_order_id, customer_info, amount, status)
\* makes, with the defaults of the table.
NewOrder(key, amount) ==
    [memo_order_id |-> key, amount |-> amount, status |-> "pending",
     commission_amount |-> 0, squad_id |-> NoSquad, rating |-> 0]

\* The text is split and parsed, the SELECT looks for the key.
process_add_order_select(key, text) ==
    /\ Len(new_orders) < MaxOrders
    /\ Spawn(IF ~IsFloat(text)
                THEN Answer("add_order", key, "InvalidFormat")
             ELSE IF NonPositive(Float(text))
                THEN Answer("add_order", key, "InvalidAmount")
             ELSE IF OrderExists(key)
                THEN Answer("add_order", key, "OrderExists")
                ELSE [Task("add_order", "-", key, "insert")
                          EXCEPT !.amount = Float(text)])
    /\ UNCHANGED <<db, now>>

\* INSERT INTO orders, commit.  memo_order_id is UNIQUE and amount NOT NULL
\* (sqlite3 binds nan as NULL): IntegrityError, nothing is written.
process_add_order_insert_no_unique(t) ==
    /\ t.op = "add_order" /\ t.pc = "insert"
    /\ IF t.amount = NaN
          THEN /\ Step(t, Done(t, "Error"))
               /\ UNCHANGED new_orders
          ELSE /\ new_orders' = Append(new_orders, NewOrder(t.order, t.amount))
               /\ Step(t, Done(t, "OrderAdded"))
    /\ UNCHANGED <<squad_id, pubg_id, completed_orders, status, order_squad,
                   commission_amount, completed_at, order_applications,
                   order_escorts, access, ledger, ratings, action_log, squads,
                   memo_order_id, now>>
process_add_order_insert(t) ==
    /\ t.op = "add_order" /\ t.pc = "insert"
    /\ IF OrderExists(t.order) \/ t.amount = NaN
          THEN /\ Step(t, Done(t, "Error"))
               /\ UNCHANGED new_orders
          ELSE /\ new_orders' = Append(new_orders, NewOrder(t.order, t.amount))
               /\ Step(t, Done(t, "OrderAdded"))
    /\ UNCHANGED <<squad_id, pubg_id, completed_orders, status, order_squad,
                   commission_amount, completed_at, order_applications,
                   order_escorts, access, ledger, ratings, action_log, squads,
                   memo_order_id, now>>

\* The admins add orders while worker A applies for the seeded one.
NextOrders ==
    \/ \E k \in MemoOrderIds, text \in AmountTexts :
           process_add_order_select(k, text)
    \/ \E t \in Running : process_add_order_insert(t)
    \/ \E o \in Orders : join_order_get_escort("A", o)
    \/ JoinSteps
    \/ \E t \in Running : answer(t)

SpecOrders == Init /\ [][NextOrders]_vars

\* The external keys of all orders, seeded and added.
UniqueKeys ==
    \A i \in 1..Len(new_orders) :
        /\ \A o \in DOMAIN memo_order_id :
               new_orders[i].memo_order_id # memo_order_id[o]
        /\ \A j \in 1..Len(new_orders) :
               new_orders[i].memo_order_id = new_orders[j].memo_order_id => i = j

\* C26: process_add_order adds an order only for a positive amount and an
\* unused key; the new row is pending with commission 0, no squad and
\* rating 0, no application or assignment belongs to it, every other call
\* is rejected with the store unchanged, and the keys stay unique.
C26_CreateOrder ==
    [][/\ \A t \in Running :
              (Left(t) /\ t.op = "add_order" /\ t.pc = "insert") =>
                  IF Answered(Answer("add_order", t.order, "OrderAdded"))
                     THEN /\ t.amount > 0
                          /\ ~OrderExists(t.order)
                          /\ new_orders' =
                                 Append(new_orders,
                                        [memo_order_id |-> t.order,
                                         amount |-> t.amount,
                                         status |-> "pending",
                                         commission_amount |-> 0,
                                         squad_id |-> NoSquad, rating |-> 0])
                          /\ UNCHANGED <<order_applications, order_escorts>>
                     ELSE /\ Answered(Answer("add_order", t.order, "Error"))
                          /\ UNCHANGED db
       /\ \A r \in BagToSet(tasks') :
              (Spawned /\ Answered(r) /\ r.op = "add_order") =>
                  /\ UNCHANGED db
                  /\ r.pc = "insert" => r.amount > 0 \/ r.amount = NaN
                  /\ r.pc = "done" =>
                         r.res \in {"InvalidFormat", "InvalidAmount", "OrderExists"}
       /\ (\A t \in Running : ~(Left(t) /\ t.op = "add_order" /\ t.pc = "insert"))
              => new_orders' = new_orders
       /\ UniqueKeys'
       /\ \A a \in Range(order_applications') : a.order_id \in Orders
       /\ \A e \in order_escorts' : e.order_id \in Orders]_vars

\* Two admins added the same new key at once: one row, one answered Error.
C26_Witness ==
    /\ Len(new_orders) = 1
    /\ new_orders[1].memo_order_id = "O2"
    /\ Answer("add_order", "O2", "Error") \in Running

(***************************************************************************)
(* process_escort_info: the admin puts a worker into a squad.              *)
(***************************************************************************)
\* Rows of escorts beside the five workers: two more members of S1.
OtherMembers(s) == IF s = "S1" THEN 2 ELSE 0

\* SELECT COUNT(*) FROM escorts WHERE squad_id = ?
MemberCount(s) == Cardinality({w \in Workers : squad_id[w] = s}) + OtherMembers(s)

SquadIsFull(member_count) == member_count >= 6

\* SELECT id FROM squads, SELECT id, username, squad_id FROM escorts.
process_escort_info_select_escort(w, s) ==
    /\ Spawn(IF s \notin squads
                THEN Answer("add_escort", "-", "SquadNotFound")
             ELSE IF squad_id[w] # NoSquad
                THEN Answer("add_escort", "-", "AlreadyInSquad")
                ELSE [Task("add_escort", w, "-", "count") EXCEPT !.squad = s])
    /\ UNCHANGED <<db, now>>

\* SELECT COUNT(*) FROM escorts WHERE squad_id = ?
process_escort_info_count(t) ==
    /\ t.op = "add_escort" /\ t.pc = "count"
    /\ Step(t, IF SquadIsFull(MemberCount(t.squad))
                  THEN Done(t, "SquadFull")
                  ELSE [t EXCEPT !.pc = "update"])
    /\ UNCHANGED <<db, now>>

\* UPDATE escorts SET squad_id = ? WHERE telegram_id = ?, commit.
process_escort_info_update(t) ==
    /\ t.op = "add_escort" /\ t.pc = "update"
    /\ squad_id' = [squad_id EXCEPT ![t.user] = t.squad]
    /\ Step(t, Done(t, "Added"))
    /\ UNCHANGED <<journal, access, ledger, ratings, pubg_id, completed_orders,
                   status, order_squad, commission_amount, completed_at,
                   order_applications, order_escorts, now>>

\* A, B and E are in S1 with two more members; C and D are in no squad.
InitSquads ==
    /\ squad_id = [w \in Workers |-> IF w \in {"C", "D"} THEN NoSquad ELSE "S1"]
    /\ pubg_id = [w \in Workers |-> SeedPubg(w)]
    /\ completed_orders = [w \in Workers |-> 0]
    /\ status = [o \in Orders |-> "pending"]
    /\ order_squad = [o \in Orders |-> NoSquad]
    /\ commission_amount = [o \in Orders |-> 0]
    /\ completed_at = [o \in Orders |-> NoTime]
    /\ order_applications = <<>>
    /\ order_escorts = {}
    /\ is_banned = [w \in Workers |-> FALSE]
    /\ ban_until = [w \in Workers |-> NoTime]
    /\ restrict_until = [w \in Workers |-> NoTime]
    /\ balance = [w \in Workers |-> 0]
    /\ payouts = <<>>
    /\ action_log = <<>>
    /\ new_orders = <<>>
    /\ squads = Squads
    /\ memo_order_id = [o \in Orders |-> o]
    /\ reputation = [w \in Workers |-> 0]
    /\ rating = [w \in Workers |-> 0]
    /\ rating_count = [w \in Workers |-> 0]
    /\ squad_rating = [s \in Squads |-> 0]
    /\ squad_rating_count = [s \in Squads |-> 0]
    /\ order_rating = [o \in Orders |-> 0]
    /\ now = 1
    /\ tasks = EmptyBag

NextSquads ==
    \/ \E w \in {"A", "C", "D"}, s \in Squads :
           process_escort_info_select_escort(w, s)
    \/ \E t \in Running : process_escort_info_count(t)
    \/ \E t \in Running : process_escort_info_update(t)
    \/ \E t \in Running : answer(t)

SpecSquads == InitSquads /\ [][NextSquads]_vars

\* C27: no squad ever has more than six members.
C27_SquadCap == \A s \in Squads : MemberCount(s) <= 6

(***************************************************************************)
(* The winner of a start.                                                  *)
(***************************************************************************)
\* The application of the worker with the smallest id.
Lowest(pool) ==
    CHOOSE a \in Range(pool) :
        \A b \in Range(pool) : EscortId(a.escort_id) <= EscortId(b.escort_id)

PickedSquad(pool) == Lowest(pool).squad_id

PickedTeam(pool) ==
    {a.escort_id : a \in {b \in Range(pool) : b.squad_id = PickedSquad(pool)}}

AssignmentsOf(o) == {r \in order_escorts : r.order_id = o}

\* C29: an order and a worker have at most one Assignment, and once an
\* order has Assignments no step adds, removes or alters one of them.
C29_AssignmentsImmutable ==
    [][\A o \in Orders :
          /\ \A r1, r2 \in AssignmentsOf(o)' :
                 r1.escort_id = r2.escort_id => r1 = r2
          /\ AssignmentsOf(o) # {} => AssignmentsOf(o)' = AssignmentsOf(o)]_vars

\* C30: an order holds at most one Application of a worker, and a join of
\* a worker who already has one on the pending order ends with
\* AlreadyApplied and leaves the pool as it is.
C30_OneApplication ==
    [][/\ \A o \in Orders, w \in Workers : OwnApplications(o, w)' <= 1
       /\ \A t \in Running :
              (/\ Left(t) /\ t.op = "join" /\ t.pc # "done"
               /\ status[t.order] = "pending"
               /\ OwnApplications(t.order, t.user) > 0
               /\ \E r \in BagToSet(tasks') :
                      Answered(r) /\ r.op = "join" /\ r.pc = "done") =>
                  /\ Answered(Answer("join", t.order, "AlreadyApplied"))
                  /\ UNCHANGED order_applications]_vars

(***************************************************************************)
(* The profile of a worker changes between apply and start:                *)
(* process_pubg_id, process_remove_escort, process_delete_squad.           *)
(***************************************************************************)
\* The texts a worker sends as the new game id.
PubgTexts == {"", " ", "X9"}

\* message.text.strip()
Strip(text) == IF text = " " THEN "" ELSE text

\* UPDATE escorts SET pubg_id = ? WHERE telegram_id = ?, commit; an empty
\* text is refused before.
process_pubg_id(w, text) ==
    /\ Strip(text) # ""
    /\ pubg_id' = [pubg_id EXCEPT ![w] = Strip(text)]
    /\ UNCHANGED <<journal, access, ledger, ratings, squad_id, completed_orders,
                   status, order_squad, commission_amount, completed_at,
                   order_applications, order_escorts, now, tasks>>

\* UPDATE escorts SET squad_id = NULL WHERE telegram_id = ?, commit; refused
\* for a worker in no squad.  The UPDATE uses nothing the SELECT returned.
process_remove_escort(w) ==
    /\ squad_id[w] # NoSquad
    /\ squad_id' = [squad_id EXCEPT ![w] = NoSquad]
    /\ UNCHANGED <<journal, access, ledger, ratings, pubg_id, completed_orders,
                   status, order_squad, commission_amount, completed_at,
                   order_applications, order_escorts, now, tasks>>

\* UPDATE escorts SET squad_id = NULL WHERE squad_id = ?,
\* DELETE FROM squads WHERE id = ?, commit.  foreign_keys is off: no other
\* table follows.
process_delete_squad(s) ==
    /\ s \in squads
    /\ squad_id' = [w \in Workers |->
                       IF squad_id[w] = s THEN NoSquad ELSE squad_id[w]]
    /\ squads' = squads \ {s}
    /\ UNCHANGED <<action_log, new_orders, memo_order_id, access, ledger,
                   ratings, pubg_id,
                   completed_orders, status, order_squad, commission_amount,
                   completed_at, order_applications, order_escorts, now, tasks>>

\* As InitDb, but D has no game id yet.
InitProfile ==
    /\ squad_id = [w \in Workers |-> SeedSquad(w)]
    /\ pubg_id = [w \in Workers |-> IF w = "D" THEN NoPubg ELSE SeedPubg(w)]
    /\ completed_orders = [w \in Workers |-> 0]
    /\ status = [o \in Orders |-> "pending"]
    /\ order_squad = [o \in Orders |-> NoSquad]
    /\ commission_amount = [o \in Orders |-> 0]
    /\ completed_at = [o \in Orders |-> NoTime]
    /\ order_applications = <<>>
    /\ order_escorts = {}
    /\ is_banned = [w \in Workers |-> FALSE]
    /\ ban_until = [w \in Workers |-> NoTime]
    /\ restrict_until = [w \in Workers |-> NoTime]
    /\ balance = [w \in Workers |-> 0]
    /\ payouts = <<>>
    /\ action_log = <<>>
    /\ new_orders = <<>>
    /\ squads = Squads
    /\ memo_order_id = [o \in Orders |-> o]
    /\ reputation = [w \in Workers |-> 0]
    /\ rating = [w \in Workers |-> 0]
    /\ rating_count = [w \in Workers |-> 0]
    /\ squad_rating = [s \in Squads |-> 0]
    /\ squad_rating_count = [s \in Squads |-> 0]
    /\ order_rating = [o \in Orders |-> 0]
    /\ now = 1
    /\ tasks = EmptyBag

\* A, B and D apply, D starts; B and D change their game id, the admin
\* takes B out of the squad and deletes S1.
NextProfile ==
    \/ \E u \in {"A", "B", "D"}, o \in Orders : join_order_get_escort(u, o)
    \/ JoinSteps
    \/ \E o \in Orders : start_order_get_escort("D", o)
    \/ StartSteps
    \/ \E w \in {"B", "D"}, text \in PubgTexts : process_pubg_id(w, text)
    \/ process_remove_escort("B")
    \/ process_delete_squad("S1")
    \/ \E t \in Running : answer(t)

SpecProfile == InitProfile /\ [][NextProfile]_vars

\* The result of a join that was refused.
JoinRefusals == {"MissingGameId", "NotInSquad", "OrderNotPending"}

\* C31: a join refused for a missing game id, a missing squad or an order
\* that is not pending changes nothing in the store; a join that reads an
\* order that is not pending is refused with OrderNotPending; no join goes
\* on without a squad and a game id, so every Application carries both.
C31_ApplyPreconditions ==
    [][/\ \A r \in BagToSet(tasks') :
              (Answered(r) /\ r.op = "join" /\ r.res \in JoinRefusals) =>
                  UNCHANGED db
       /\ \A t \in Running :
              (Left(t) /\ t.op = "join" /\ t.pc = "order"
                 /\ status[t.order] # "pending") =>
                  Answered(Answer("join", t.order, "OrderNotPending"))
       /\ \A r \in BagToSet(tasks') :
              (r.op = "join" /\ r.pc # "done") =>
                  r.squad # NoSquad /\ r.pubg # NoPubg
       /\ \A a \in Range(order_applications') :
              a.squad_id # NoSquad /\ a.pubg_id # NoPubg]_vars

\* All three refusals were answered, and D applied after giving a game id.
C31_Witness ==
    /\ \E i \in 1..Len(order_applications) :
           order_applications[i].escort_id = "D"
    /\ squad_id["B"] = NoSquad
    /\ \E r \in Running : r.op = "join" /\ r.res = "NotInSquad"
    /\ \E r \in Running : r.op = "join" /\ r.res \in {"MissingGameId", "OrderNotPending"}

\* The applicants whose Application carries the squad id s.
SnapshotTeam(pool, s) == {a.escort_id : a \in {b \in Range(pool) : b.squad_id = s}}

C33_GameIdSnapshot ==
    [][\A o \in Orders :
          StartSucceeds(o) =>
              \A r \in order_escorts' \ order_escorts :
                  r.order_id = o =>
                      \E a \in Range(ArrivalsOf(o)) :
                          a.escort_id = r.escort_id /\ a.pubg_id = r.pubg_id]_vars

\* C39: the squad a successful start writes into the order exists when the
\* start commits.
C39_SquadExists ==
    [][\A o \in Orders : StartSucceeds(o) => order_squad'[o] \in squads']_vars

\* C34: a pending order has no Assignment, no squad and commission 0; an
\* order in progress or completed has 2 to 4 Assignments, a squad and the
\* commission 0.20 * amount.
C34_OrderShape ==
    \A o \in Orders :
        IF status[o] = "pending"
           THEN /\ AssigneesOf(o) = {}
                /\ order_squad[o] = NoSquad
                /\ commission_amount[o] = 0
           ELSE /\ Cardinality(AssigneesOf(o)) \in 2..4
                /\ order_squad[o] # NoSquad
                /\ commission_amount[o] = Commission(Amount(o))

\* C35: the completed-order counter of every worker is the number of
\* Assignments the worker holds.
C35_CounterIsAssignments ==
    \A w \in Workers :
        completed_orders[w] = Cardinality({r \in order_escorts : r.escort_id = w})

\* The order was started for C and D and completed.
C35_Witness ==
    /\ status["O1"] = "completed"
    /\ completed_orders["C"] = 1 /\ completed_orders["D"] = 1
    /\ completed_orders["E"] = 0

\* The rated orders on which the worker holds an Assignment.
RatedOrdersOf(w) == {o \in Orders : order_rating[o] # 0 /\ w \in AssigneesOf(o)}

\* C36: the reputation of every worker is the worker's rating sum, and the
\* rating count is the number of rated orders the worker is assigned to.
C36_ReputationIsRatingSum ==
    \A w \in Workers :
        /\ reputation[w] = rating[w]
        /\ rating_count[w] = Cardinality(RatedOrdersOf(w))

(***************************************************************************)
(* The admin types the amount of a credit as text.                         *)
(***************************************************************************)
\* telegram_id, amount = parts; amount = float(amount): ValueError ends the
\* handler with the format message.
process_balance_amount(w, text) ==
    /\ IsFloat(text)
    /\ process_balance_amount_select_escort(w, Float(text))

NextCredit ==
    \/ \E o \in Orders : process_payout_request_get_escort("A", o)
    \/ PayoutSteps
    \/ \E text \in AmountTexts : process_balance_amount("A", text)
    \/ \E t \in Running : process_balance_amount_update(t)
    \/ process_zero_balance_select_escort("A")
    \/ \E t \in Running : process_zero_balance_update(t)
    \/ \E t \in Running : answer(t)

SpecCredit == InitCompleted /\ [][NextCredit]_vars

\* C37: the balance of every worker is a number and not negative.
C37_BalanceNonNegative ==
    \A w \in Workers : balance[w] # NaN /\ balance[w] >= 0

(***************************************************************************)
(* The buttons under the confirmation of a started order.  start_order     *)
(* builds them with get_confirmed_order_keyboard(order[0]), and order[0]   *)
(* is orders.memo_order_id; cancel_order reads the last piece of the       *)
(* callback data as orders.id.                                             *)
(***************************************************************************)
\* The two rows of table orders in this scenario.
KeyOrders == {"O1", "O2"}
\* orders.id, the AUTOINCREMENT key.
OrderDbId(o) == IF o = "O1" THEN 1 ELSE 2
\* Keys the admin may have typed for an order in process_add_order.
MemoTexts == {"1", "2", "9", "M7", "M_2"}

\* callback_data=f"cancel_order_{order_id}" of the confirmation keyboard.
get_confirmed_order_keyboard(order_id) == <<"cancel", "order", order_id>>

\* callback.data.split("_")[-1]
LastPiece(data) ==
    LET text == data[Len(data)]
    IN  IF text = "M_2" THEN "2" ELSE text

\* int(text) succeeds on decimal digits and raises ValueError otherwise.
IsInt(text) == text \in {"1", "2", "9"}
IntOf(text) == IF text = "1" THEN 1 ELSE IF text = "2" THEN 2 ELSE 9

\* SELECT status, memo_order_id FROM orders WHERE id = ?
OrdersWithId(id) == {o \in DOMAIN status : OrderDbId(o) = id}

\* cancel_order run from the cancel button of the confirmation of order o:
\* the callback data carry the key of o, the handler looks the number up as
\* an id.  source remembers the order whose confirmation was pressed.
cancel_order_confirmed(u, o) ==
    /\ status[o] # "pending"
    /\ LET piece == LastPiece(get_confirmed_order_keyboard(memo_order_id[o]))
           found == IF IsInt(piece) THEN OrdersWithId(IntOf(piece)) ELSE {}
           t == IF ~IsInt(piece)
                   THEN Done(Task("cancel", u, o, "order"), "Error")
                ELSE IF found = {}
                   THEN Done(Task("cancel", u, o, "order"), "OrderNotFound")
                ELSE LET target == CHOOSE x \in found : TRUE
                     IN  IF status[target] # "pending"
                            THEN Done(Task("cancel", u, target, "order"),
                                      "OrderAlreadyStarted")
                            ELSE Task("cancel", "-", target, "delete")
       IN  Spawn([t EXCEPT !.source = o])
    /\ UNCHANGED <<db, now>>

\* Order 1 was started for A and B, order 2 is pending; the keys are any two
\* different texts (memo_order_id is UNIQUE).
InitKeys ==
    /\ squad_id = [w \in Workers |-> SeedSquad(w)]
    /\ pubg_id = [w \in Workers |-> SeedPubg(w)]
    /\ completed_orders =
           [w \in Workers |-> IF w \in Range(StartedFor) THEN 1 ELSE 0]
    /\ status = [o \in KeyOrders |->
                    IF o = "O1" THEN "in_progress" ELSE "pending"]
    /\ order_squad = [o \in KeyOrders |->
                    IF o = "O1" THEN SeedSquad(StartedFor[1]) ELSE NoSquad]
    /\ commission_amount = [o \in KeyOrders |->
                    IF o = "O1" THEN Commission(Amount(o)) ELSE 0]
    /\ completed_at = [o \in KeyOrders |-> NoTime]
    /\ order_applications = <<>>
    /\ order_escorts = {[order_id |-> "O1", escort_id |-> w,
                         pubg_id |-> SeedPubg(w)] : w \in Range(StartedFor)}
    /\ is_banned = [w \in Workers |-> FALSE]
    /\ ban_until = [w \in Workers |-> NoTime]
    /\ restrict_until = [w \in Workers |-> NoTime]
    /\ balance = [w \in Workers |-> 0]
    /\ payouts = <<>>
    /\ action_log = <<>>
    /\ new_orders = <<>>
    /\ squads = Squads
    /\ memo_order_id \in {m \in [KeyOrders -> MemoTexts] : m["O1"] # m["O2"]}
    /\ reputation = [w \in Workers |-> 0]
    /\ rating = [w \in Workers |-> 0]
    /\ rating_count = [w \in Workers |-> 0]
    /\ squad_rating = [s \in Squads |-> 0]
    /\ squad_rating_count = [s \in Squads |-> 0]
    /\ order_rating = [o \in KeyOrders |-> 0]
    /\ now = 1
    /\ tasks = EmptyBag

NextKeys ==
    \/ \E u \in {"C", "D"} : join_order_get_escort(u, "O2")
    \/ JoinSteps
    \/ \E o \in KeyOrders : cancel_order_confirmed("A", o)
    \/ \E t \in Running : cancel_order_delete(t)
    \/ \E t \in Running : answer(t)

SpecKeys == InitKeys /\ [][NextKeys]_vars

\* The handlers spawned by the cancel button of a confirmation.
FromConfirmation(ts) == {t \in ts : t.source # NoOrder}

\* C38: the cancel button on the confirmation of a started order addresses
\* that same order: the press is always answered "already started" about
\* the order whose confirmation it is, and no handler it starts deletes an
\* Application of any order, whatever the key and the id of the order are.
C38_ConfirmedCancelIsRejected ==
    [][/\ \A t \in FromConfirmation(BagToSet(tasks')) :
              /\ t.order = t.source
              /\ t.res = "OrderAlreadyStarted"
       /\ (\E t \in FromConfirmation(Running) :
               t.pc = "delete" /\ ~BagIn(t, tasks'))
              => order_applications' = order_applications]_vars

====
